---- MODULE Spec2Model ----
(***************************************************************************)
(* Model of the EmailService class of scripts/fix-admin-user.ts: the       *)
(* process-wide emailService singleton, its constructor, sendEmail (the     *)
(* race between transporter.sendMail and a setTimeout rejection) and        *)
(* sendBeauticianApprovalEmail.                                             *)
(*                                                                         *)
(* One entry of `calls` is one invocation of sendEmail.  The transport and  *)
(* the timer of a call settle in separate event-loop turns; the promise     *)
(* reactions that follow a settlement (Promise.race, the await, the return) *)
(* run as microtasks of the same turn and are part of the same action.      *)
(* Date.now() only feeds the `duration` field of two log events and is not  *)
(* modelled: a timer may fire at any turn after it was armed.               *)
(***************************************************************************)
EXTENDS Integers, Sequences, FiniteSets, TLC

VARIABLES
    env,          \* process.env
    transporter,  \* emailService.transporter
    ctorLog,      \* the event the constructor logged
    calls,        \* the invocations of sendEmail, in the order they were made
    approvals     \* per invocation: the sendBeauticianApprovalEmail call that made it, or Null

vars == <<env, transporter, ctorLog, calls, approvals>>

\* private readonly EMAIL_TIMEOUT_MS = 5000
EMAIL_TIMEOUT_MS == 5000

\* Number of sendEmail invocations explored.
MaxCalls == 2

\* null / undefined
Null == <<>>

-----------------------------------------------------------------------------
(* String primitives of the JavaScript runtime, on TLC strings.            *)

\* String.prototype.includes
Includes(s, sub) ==
    \E i \in 1..(Len(s) - Len(sub) + 1) : SubSeq(s, i, i + Len(sub) - 1) = sub

\* String.prototype.indexOf, 1-based; 0 when absent
IndexOf(s, sub) ==
    IF Includes(s, sub)
    THEN CHOOSE i \in 1..(Len(s) - Len(sub) + 1) :
            /\ SubSeq(s, i, i + Len(sub) - 1) = sub
            /\ \A j \in 1..(i - 1) : SubSeq(s, j, j + Len(sub) - 1) # sub
    ELSE 0

\* s.split(sep)[0]
SplitFirst(s, sep) ==
    IF IndexOf(s, sep) = 0 THEN s ELSE SubSeq(s, 1, IndexOf(s, sep) - 1)

DigitValue(ch) ==
    CASE ch = "0" -> 0 [] ch = "1" -> 1 [] ch = "2" -> 2 [] ch = "3" -> 3
      [] ch = "4" -> 4 [] ch = "5" -> 5 [] ch = "6" -> 6 [] ch = "7" -> 7
      [] ch = "8" -> 8 [] ch = "9" -> 9 [] OTHER -> -1

RECURSIVE ParseDigits(_, _, _)
ParseDigits(s, i, acc) ==
    IF i > Len(s) \/ DigitValue(SubSeq(s, i, i)) < 0
    THEN acc
    ELSE ParseDigits(s, i + 1, acc * 10 + DigitValue(SubSeq(s, i, i)))

\* parseInt on an unsigned decimal prefix; NaN (no leading digit) is -1
ParseInt(s) ==
    IF Len(s) = 0 \/ DigitValue(SubSeq(s, 1, 1)) < 0 THEN -1 ELSE ParseDigits(s, 1, 0)

-----------------------------------------------------------------------------
(* process.env: a function from the names that are defined to strings.     *)

\* The entries explored; SMTP_PORT stays undefined, so the port is the default
EnvKeys == {"SMTP_HOST", "SMTP_USER", "SMTP_PASS", "FRONTEND_URL", "REPLIT_DOMAINS"}

EnvValues(k) ==
    CASE k = "SMTP_HOST"      -> {"smtp.test"}
      [] k = "SMTP_USER"      -> {"a@test"}
      [] k = "SMTP_PASS"      -> {"x"}
      [] k = "FRONTEND_URL"   -> {"", "https://app.test"}
      [] k = "REPLIT_DOMAINS" -> {"a.dev,b.dev"}

AllValues == UNION {EnvValues(k) : k \in EnvKeys}

EnvsOver(keys) ==
    UNION {{e \in [K -> AllValues] : \A k \in K : e[k] \in EnvValues(k)} : K \in SUBSET keys}

\* JavaScript truthiness of process.env[k]: defined and not the empty string
Truthy(e, k) == k \in DOMAIN e /\ e[k] # ""

\* process.env[k] || dflt
OrDefault(e, k, dflt) == IF Truthy(e, k) THEN e[k] ELSE dflt

-----------------------------------------------------------------------------
(* constructor()                                                           *)

\* process.env.SMTP_HOST && process.env.SMTP_USER && process.env.SMTP_PASS
HasCredentials(e) ==
    Truthy(e, "SMTP_HOST") /\ Truthy(e, "SMTP_USER") /\ Truthy(e, "SMTP_PASS")

\* nodemailer.createTransport({...}): the client handle and its options
createTransport(e) ==
    [host              |-> e["SMTP_HOST"],
     port              |-> ParseInt(OrDefault(e, "SMTP_PORT", "587")),
     secure            |-> ("SMTP_PORT" \in DOMAIN e /\ e["SMTP_PORT"] = "465"),
     auth              |-> [user |-> e["SMTP_USER"], pass |-> e["SMTP_PASS"]],
     connectionTimeout |-> EMAIL_TIMEOUT_MS,
     socketTimeout     |-> EMAIL_TIMEOUT_MS,
     greetingTimeout   |-> EMAIL_TIMEOUT_MS]

\* The value of this.transporter when the constructor returns
Constructor(e) == IF HasCredentials(e) THEN createTransport(e) ELSE Null

\* The event the constructor logs
ConstructorEvent(e) ==
    IF HasCredentials(e)
    THEN [level |-> "info", message |-> "Email service initialized",
          host |-> e["SMTP_HOST"], port |-> OrDefault(e, "SMTP_PORT", "587")]
    ELSE [level |-> "warn",
          message |-> "Email service not configured - SMTP credentials missing"]

-----------------------------------------------------------------------------
(* Values of sendEmail                                                     *)

\* A promise that has not settled
Pending == [state |-> "pending"]

\* sendMail was never called: there is no promise
NoPromise == [state |-> "none"]

\* The async function has not returned yet
NoResult == [returned |-> FALSE]

NotConfiguredResult == [success |-> FALSE, error |-> "Email service not configured"]

\* new Error(`Email send timeout after ${this.EMAIL_TIMEOUT_MS}ms - ...`)
TimeoutError ==
    [isError |-> TRUE,
     message |-> "Email send timeout after " \o ToString(EMAIL_TIMEOUT_MS)
                 \o "ms - SMTP server may be slow or unresponsive"]

\* The result returned for an error text that mentions a timeout
TimedOutResult ==
    [success |-> FALSE,
     error   |-> "Email sending timed out or failed after " \o ToString(EMAIL_TIMEOUT_MS)
                 \o "ms. The email may still be queued for delivery."]

\* What transporter.sendMail may reject with: Error objects and a thrown
\* value that is not an Error
TransportErrors ==
    {[isError |-> TRUE,  message |-> "Invalid recipient"],
     [isError |-> TRUE,  message |-> "Connection timeout"],
     [isError |-> FALSE, message |-> "ECONNRESET"]}

\* What transporter.sendMail may resolve with
TransportInfos == {[messageId |-> "<m1@smtp.test>"]}

\* The requests callers hand to sendEmail; the second carries a property
\* EmailOptions does not declare
DirectRequests ==
    {[to |-> "kim@x.io", subject |-> "Hi", html |-> "<p>Hi</p>"],
     [to |-> "kim@x.io", subject |-> "Hi", html |-> "<p>Hi</p>", from |-> "ceo@x.io"]}

\* The arguments callers hand to sendBeauticianApprovalEmail
ApprovalArgs ==
    {[email |-> "bea@salon.io", firstName |-> "Bea", password |-> "pw<1>&"],
     [email |-> "al@x.io",      firstName |-> "Al",  password |-> "Zq9"]}

\* const mailOptions = { from: process.env.SMTP_USER, to, subject, html }
MailOptions(e, options) ==
    LET base == [to |-> options.to, subject |-> options.subject, html |-> options.html]
    IN  IF "SMTP_USER" \in DOMAIN e
        THEN [k \in {"from", "to", "subject", "html"} |->
                 IF k = "from" THEN e["SMTP_USER"] ELSE base[k]]
        ELSE base

\* error instanceof Error ? error.message : 'Unknown error'
ErrorMessage(error) == IF error.isError THEN error.message ELSE "Unknown error"

\* CatchResult without the check for a timeout text
CatchResultVerbatim(errorMessage) == [success |-> FALSE, error |-> errorMessage]

\* The value the catch block returns
CatchResult(errorMessage) ==
    IF Includes(errorMessage, "timeout")
    THEN TimedOutResult
    ELSE [success |-> FALSE, error |-> errorMessage]

\* SendEmailBegin without the guard on this.transporter
SendEmailBeginUnguarded(t, e, options) ==
    [options     |-> options,
     mailOptions |-> MailOptions(e, options),
     sendPromise |-> Pending,
     timer       |-> "armed",
     race        |-> Pending,
     pc          |-> "awaiting",
     result      |-> NoResult,
     events      |-> <<[level |-> "info", message |-> "Attempting to send email",
                        to |-> options.to, subject |-> options.subject]>>]

\* sendEmail up to its first await (or its early return), as the record of
\* the invocation
SendEmailBegin(t, e, options) ==
    IF t = Null
    THEN [options     |-> options,
          mailOptions |-> Null,
          sendPromise |-> NoPromise,
          timer       |-> "none",
          race        |-> NoPromise,
          pc          |-> "returned",
          result      |-> NotConfiguredResult,
          events      |-> <<[level |-> "warn",
                             message |-> "Email service not configured - email not sent",
                             to |-> options.to]>>]
    ELSE [options     |-> options,
          mailOptions |-> MailOptions(e, options),
          sendPromise |-> Pending,
          timer       |-> "armed",
          race        |-> Pending,
          pc          |-> "awaiting",
          result      |-> NoResult,
          events      |-> <<[level |-> "info", message |-> "Attempting to send email",
                             to |-> options.to, subject |-> options.subject]>>]

\* AfterRace whose catch block logs the failure and throws it again
AfterRaceRethrow(call, outcome) ==
    IF outcome.state = "fulfilled"
    THEN [call EXCEPT
            !.race   = outcome,
            !.pc     = "returned",
            !.result = [success |-> TRUE],
            !.events = Append(@, [level |-> "info", message |-> "Email sent successfully",
                                  to |-> call.options.to, subject |-> call.options.subject,
                                  messageId |-> outcome.value.messageId])]
    ELSE [call EXCEPT
            !.race   = outcome,
            !.pc     = "threw",
            !.events = Append(@, [level |-> "error", message |-> "Failed to send email",
                                  to |-> call.options.to, subject |-> call.options.subject,
                                  error |-> ErrorMessage(outcome.value)])]

\* The code after `await Promise.race(...)`: the try block's tail when the
\* race fulfilled, the catch block when it rejected
AfterRace(call, outcome) ==
    IF outcome.state = "fulfilled"
    THEN [call EXCEPT
            !.race   = outcome,
            !.pc     = "returned",
            !.result = [success |-> TRUE],
            !.events = Append(@, [level |-> "info", message |-> "Email sent successfully",
                                  to |-> call.options.to, subject |-> call.options.subject,
                                  messageId |-> outcome.value.messageId])]
    ELSE [call EXCEPT
            !.race   = outcome,
            !.pc     = "returned",
            !.result = CatchResult(ErrorMessage(outcome.value)),
            !.events = Append(@, [level |-> "error", message |-> "Failed to send email",
                                  to |-> call.options.to, subject |-> call.options.subject,
                                  error |-> ErrorMessage(outcome.value)])]

\* RaceSettle where every settlement runs the code after the await
RaceSettleEvery(call, outcome) == AfterRace(call, outcome)

\* Promise.race([sendPromise, timeoutPromise]): only the first settlement
\* settles the race; a later one is dropped
RaceSettle(call, outcome) ==
    IF call.race.state = "pending" THEN AfterRace(call, outcome) ELSE call

-----------------------------------------------------------------------------
(* sendBeauticianApprovalEmail                                             *)

\* loginUrl with the domain list tried before the front-end URL
loginUrlDomainsFirst(e) ==
    IF "REPLIT_DOMAINS" \in DOMAIN e /\ SplitFirst(e["REPLIT_DOMAINS"], ",") # ""
    THEN SplitFirst(e["REPLIT_DOMAINS"], ",")
    ELSE IF Truthy(e, "FRONTEND_URL")
         THEN e["FRONTEND_URL"]
         ELSE "https://www.kosmospace.com"

\* process.env.FRONTEND_URL || process.env.REPLIT_DOMAINS?.split(',')[0]
\*   || 'https://www.kosmospace.com'
loginUrl(e) ==
    IF Truthy(e, "FRONTEND_URL")
    THEN e["FRONTEND_URL"]
    ELSE IF "REPLIT_DOMAINS" \in DOMAIN e /\ SplitFirst(e["REPLIT_DOMAINS"], ",") # ""
         THEN SplitFirst(e["REPLIT_DOMAINS"], ",")
         ELSE "https://www.kosmospace.com"

subject == "Welcome to Kosmospace - Your Application Has Been Approved!"

\* The template literal, with the <style> block, the static paragraphs and
\* the indentation between tags left out; the text around each of the four
\* interpolations is the source's
html(firstName, email, password, url) ==
    "<!DOCTYPE html><html><head><meta charset=\"UTF-8\"></head><body>"
    \o "<div class=\"container\"><div class=\"header\"><h1>Welcome to Kosmospace!</h1></div>"
    \o "<div class=\"content\"><p>Dear " \o firstName \o ",</p>"
    \o "<div class=\"credentials\"><h3>Your Login Credentials:</h3>"
    \o "<p><strong>Email:</strong> " \o email \o "</p>"
    \o "<p><strong>Password:</strong> <code style=\"background: #f0f0f0; padding: 4px 8px; border-radius: 4px; font-size: 14px;\">"
    \o password \o "</code></p></div>"
    \o "<div style=\"text-align: center;\"><a href=\"" \o url
    \o "/login\" class=\"button\">Login to Dashboard</a></div>"
    \o "<p><strong>The Kosmospace Team</strong></p></div></div></body></html>"

\* The options sendBeauticianApprovalEmail hands to sendEmail
ApprovalOptions(e, a) ==
    [to      |-> a.email,
     subject |-> subject,
     html    |-> html(a.firstName, a.email, a.password, loginUrl(e))]

\* return await this.sendEmail({ to: email, subject, html })
ApprovalReturn(result) == result

\* The record of a sendBeauticianApprovalEmail call whose sendEmail is `call`
Approval(a, call) ==
    [args   |-> a,
     result |-> IF call.pc = "returned" THEN ApprovalReturn(call.result) ELSE NoResult]

\* The wrapper of invocation c after that invocation became `call`
Resume(c, call) ==
    IF approvals[c] = Null THEN Null ELSE Approval(approvals[c].args, call)

-----------------------------------------------------------------------------
(* Actions                                                                 *)

Started == DOMAIN calls

\* sendEmail that builds the transporter on a later call once the credentials
\* have appeared
sendEmailLazy(options) ==
    /\ Len(calls) < MaxCalls
    /\ transporter' = IF transporter = Null THEN Constructor(env) ELSE transporter
    /\ calls' = Append(calls, SendEmailBegin(transporter', env, options))
    /\ approvals' = Append(approvals, Null)
    /\ UNCHANGED <<env, ctorLog>>

\* emailService.sendEmail(options), to its first await or early return
sendEmail(options) ==
    /\ Len(calls) < MaxCalls
    /\ calls' = Append(calls, SendEmailBegin(transporter, env, options))
    /\ approvals' = Append(approvals, Null)
    /\ UNCHANGED <<env, transporter, ctorLog>>

\* emailService.sendBeauticianApprovalEmail(email, firstName, password), to
\* the first await of the sendEmail it calls or to its early return
sendBeauticianApprovalEmail(a) ==
    /\ Len(calls) < MaxCalls
    /\ LET call == SendEmailBegin(transporter, env, ApprovalOptions(env, a))
       IN  /\ calls' = Append(calls, call)
           /\ approvals' = Append(approvals, Approval(a, call))
    /\ UNCHANGED <<env, transporter, ctorLog>>

\* Invocation c's sendPromise settles to `settled`, and the race with it
SendSettles(c, settled) ==
    /\ calls[c].sendPromise.state = "pending"
    /\ LET call == RaceSettle([calls[c] EXCEPT !.sendPromise = settled],
                              [state |-> settled.state, value |-> settled.value,
                               by |-> "sendPromise"])
       IN  /\ calls' = [calls EXCEPT ![c] = call]
           /\ approvals' = [approvals EXCEPT ![c] = Resume(c, call)]
    /\ UNCHANGED <<env, transporter, ctorLog>>

\* transporter.sendMail resolves for invocation c
TransportResolves(c, info) ==
    SendSettles(c, [state |-> "fulfilled", value |-> info])

\* transporter.sendMail rejects for invocation c
TransportRejects(c, error) ==
    SendSettles(c, [state |-> "rejected", value |-> error])

\* TimerFires whose callback never calls reject
TimerFiresSilently(c) ==
    /\ calls[c].timer = "armed"
    /\ calls' = [calls EXCEPT ![c].timer = "fired"]
    /\ UNCHANGED <<env, transporter, ctorLog, approvals>>

\* TimerFires whose callback logs the failure itself before it rejects
TimerFiresLogging(c) ==
    /\ calls[c].timer = "armed"
    /\ LET logged == [calls[c] EXCEPT
                        !.timer  = "fired",
                        !.events = Append(@, [level |-> "error",
                                              message |-> "Failed to send email",
                                              to |-> calls[c].options.to,
                                              subject |-> calls[c].options.subject,
                                              error |-> TimeoutError.message])]
           call == RaceSettle(logged, [state |-> "rejected", value |-> TimeoutError,
                                       by |-> "timeoutPromise"])
       IN  /\ calls' = [calls EXCEPT ![c] = call]
           /\ approvals' = [approvals EXCEPT ![c] = Resume(c, call)]
    /\ UNCHANGED <<env, transporter, ctorLog>>

\* TimerFires with one timer kept for the whole service: its callback rejects
\* the race of every invocation that is still waiting
TimerFiresShared(c) ==
    /\ calls[c].timer = "armed"
    /\ LET hit(d) == RaceSettle(IF d = c THEN [calls[d] EXCEPT !.timer = "fired"] ELSE calls[d],
                                [state |-> "rejected", value |-> TimeoutError,
                                 by |-> "timeoutPromise"])
       IN  /\ calls' = [d \in DOMAIN calls |-> hit(d)]
           /\ approvals' = [d \in DOMAIN calls |-> Resume(d, hit(d))]
    /\ UNCHANGED <<env, transporter, ctorLog>>

\* The setTimeout callback of invocation c runs: timeoutPromise rejects
TimerFires(c) ==
    /\ calls[c].timer = "armed"
    /\ LET call == RaceSettle([calls[c] EXCEPT !.timer = "fired"],
                              [state |-> "rejected", value |-> TimeoutError,
                               by |-> "timeoutPromise"])
       IN  /\ calls' = [calls EXCEPT ![c] = call]
           /\ approvals' = [approvals EXCEPT ![c] = Resume(c, call)]
    /\ UNCHANGED <<env, transporter, ctorLog>>

\* Other code of the process assigns or deletes a process.env entry the
\* service reads on every send
LaterValues(k) == IF k = "SMTP_USER" THEN {"a@test", "b@test"} ELSE EnvValues(k)

SetEnv(k, v) ==
    /\ env' = [x \in DOMAIN env \cup {k} |-> IF x = k THEN v ELSE env[x]]
    /\ env' # env
    /\ UNCHANGED <<transporter, ctorLog, calls, approvals>>

DeleteEnv(k) ==
    /\ k \in DOMAIN env
    /\ env' = [x \in DOMAIN env \ {k} |-> env[x]]
    /\ UNCHANGED <<transporter, ctorLog, calls, approvals>>

-----------------------------------------------------------------------------
(* Specifications                                                          *)

\* export const emailService = new EmailService(), in any environment
InitIn(envs) ==
    /\ env \in envs
    /\ transporter = Constructor(env)
    /\ ctorLog = ConstructorEvent(env)
    /\ calls = <<>>
    /\ approvals = <<>>

Init == InitIn(EnvsOver(EnvKeys))

Next ==
    \/ \E options \in DirectRequests : sendEmail(options)
    \/ \E a \in ApprovalArgs : sendBeauticianApprovalEmail(a)
    \/ \E c \in Started, info \in TransportInfos : TransportResolves(c, info)
    \/ \E c \in Started, error \in TransportErrors : TransportRejects(c, error)
    \/ \E c \in Started : TimerFires(c)

\* The service in an environment that does not change after start-up
Spec == Init /\ [][Next]_vars

SmtpKeys == {"SMTP_HOST", "SMTP_USER", "SMTP_PASS"}

\* A configured service
InitConfigured == InitIn({e \in EnvsOver(SmtpKeys) : HasCredentials(e)})

\* A configured service whose event loop runs every timer callback that is
\* due; nothing obliges the transport to settle
FairSpec ==
    /\ InitConfigured
    /\ [][Next]_vars
    /\ \A c \in 1..MaxCalls : WF_vars(c \in Started /\ TimerFires(c))

InitEnv == InitIn(EnvsOver(SmtpKeys))

\* One request and one rejection per invocation: neither is read by the
\* constructor or by the from-address
EnvRequest == [to |-> "kim@x.io", subject |-> "Hi", html |-> "<p>Hi</p>", from |-> "ceo@x.io"]

EnvError == [isError |-> TRUE, message |-> "Invalid recipient"]

NextEnv ==
    \/ sendEmail(EnvRequest)
    \/ \E c \in Started, info \in TransportInfos : TransportResolves(c, info)
    \/ \E c \in Started : TransportRejects(c, EnvError)
    \/ \E c \in Started : TimerFires(c)
    \/ \E k \in SmtpKeys : \E v \in LaterValues(k) : SetEnv(k, v)
    \/ \E k \in SmtpKeys : DeleteEnv(k)

\* The service while other code of the process rewrites the SMTP entries
\* of process.env
SpecEnv == InitEnv /\ [][NextEnv]_vars

-----------------------------------------------------------------------------
(* Properties                                                              *)

\* The race of invocation c was settled by its timer
TimerWon(c) == calls[c].race.state = "rejected" /\ calls[c].race.by = "timeoutPromise"

\* The race of invocation c was settled by its transport call
SendWon(c) == calls[c].race.state \in {"fulfilled", "rejected"} /\ calls[c].race.by = "sendPromise"

\* The number of events of invocation c with this level and message
EventCount(c, level, message) ==
    Cardinality({i \in DOMAIN calls[c].events :
                    calls[c].events[i].level = level /\ calls[c].events[i].message = message})

SuccessEvents(c) == EventCount(c, "info", "Email sent successfully")

ErrorEvents(c) == EventCount(c, "error", "Failed to send email")

\* The text of the bound: the number of milliseconds followed by "ms"
BoundText == "5000ms"

\* C1: a dispatcher constructed without all of SMTP host, user and secret
\* answers every sendEmail call with {success: false, error: "Email service
\* not configured"}, never calls the transport's sendMail and starts no timer.
C1_UnconfiguredRefuses ==
    ~ ({"SMTP_HOST", "SMTP_USER", "SMTP_PASS"} \subseteq DOMAIN env) =>
        \A c \in Started :
            /\ calls[c].pc = "returned"
            /\ calls[c].result = [success |-> FALSE, error |-> "Email service not configured"]
            /\ calls[c].mailOptions = Null
            /\ calls[c].sendPromise.state = "none"
            /\ calls[c].timer = "none"

\* Two calls, one of them through sendBeauticianApprovalEmail, were answered
\* by a dispatcher that has a host and a user but no secret
C1_Witness ==
    /\ DOMAIN env \cap {"SMTP_HOST", "SMTP_USER", "SMTP_PASS"} = {"SMTP_HOST", "SMTP_USER"}
    /\ \E c, d \in Started : approvals[c] = Null /\ approvals[d] # Null
                             /\ calls[d].result.success = FALSE

\* C2: on a configured dispatcher every sendEmail call that is waiting
\* eventually returns, and a call that returned while its transport call had
\* not settled returned because its timer fired, with success = false and an
\* error text that mentions the bound.
C2_TimerBoundsTheWait ==
    /\ \A c \in 1..MaxCalls :
          (c \in Started /\ calls[c].pc = "awaiting") ~> (c \in Started /\ calls[c].pc = "returned")
    /\ [](\A c \in Started :
            (calls[c].pc = "returned" /\ calls[c].sendPromise.state = "pending") =>
                /\ calls[c].timer = "fired"
                /\ calls[c].result.success = FALSE
                /\ Includes(calls[c].result.error, BoundText))

\* A call returned while its transport call was still pending
C2_Witness ==
    \E c \in Started :
        /\ calls[c].pc = "returned"
        /\ calls[c].sendPromise.state = "pending"
        /\ calls[c].timer = "fired"

\* The result of a call whose timer won the race
C3_State(c) ==
    TimerWon(c) =>
        /\ calls[c].pc = "returned"
        /\ calls[c].result.success = FALSE
        /\ Includes(calls[c].result.error, "timed out")
        /\ calls[c].sendPromise.state \in {"pending", "fulfilled", "rejected"}
        /\ SuccessEvents(c) = 0
        /\ ErrorEvents(c) = 1

\* A step of a call: the timer that fires first returns at once and leaves
\* the transport call as it is; after that nothing changes the result or logs
C3_Step(c) ==
    /\ (calls[c].pc = "awaiting" /\ calls'[c].timer = "fired") =>
          /\ calls'[c].pc = "returned"
          /\ calls'[c].race.state = "rejected" /\ calls'[c].race.by = "timeoutPromise"
          /\ calls'[c].sendPromise = Pending
    /\ TimerWon(c) =>
          /\ calls'[c].result = calls[c].result
          /\ calls'[c].events = calls[c].events
          /\ approvals'[c] = approvals[c]

\* C3: when the timer settles before the transport call, sendEmail returns
\* the timeout failure at that moment, the transport call is not cancelled,
\* and its later resolution or rejection changes neither the returned result
\* nor the log of that call.
C3_LoserIsDiscarded ==
    /\ [](\A c \in Started : C3_State(c))
    /\ [][\A c \in Started : C3_Step(c)]_vars

\* The transport call of one invocation resolved, and that of another
\* rejected, after the timer had won
C3_Witness ==
    \E c, d \in Started :
        /\ TimerWon(c) /\ calls[c].sendPromise.state = "fulfilled"
        /\ TimerWon(d) /\ calls[d].sendPromise.state = "rejected"

\* C4: when the transport call resolves before the timer fires, sendEmail
\* returns {success: true} with no error field and the call logs exactly one
\* success event and no error event, also after the timer has fired.
C4_SuccessIsFinal ==
    \A c \in Started :
        (SendWon(c) /\ calls[c].sendPromise.state = "fulfilled") =>
            /\ calls[c].pc = "returned"
            /\ calls[c].result = [success |-> TRUE]
            /\ SuccessEvents(c) = 1
            /\ ErrorEvents(c) = 0

\* A call succeeded and its timer fired afterwards
C4_Witness ==
    \E c \in Started :
        SendWon(c) /\ calls[c].sendPromise.state = "fulfilled" /\ calls[c].timer = "fired"

\* C5 as stated: whenever the transport call rejects with an Error before the
\* timer fires, sendEmail returns that Error's message verbatim.
C5_TransportMessageVerbatim ==
    \A c \in Started :
        (SendWon(c) /\ calls[c].race.state = "rejected" /\ calls[c].race.value.isError) =>
            calls[c].result = [success |-> FALSE, error |-> calls[c].race.value.message]

\* C5 as amended: whenever the transport call rejects with an Error before
\* the timer fires, sendEmail returns that Error's message verbatim if the
\* message does not contain "timeout"; if it does, the result is the timed-out
\* message, the same one a failure caused by the timer gets.
C5_MessageVerbatimUnlessTimeout ==
    \A c \in Started :
        /\ (SendWon(c) /\ calls[c].race.state = "rejected" /\ calls[c].race.value.isError) =>
              LET m == calls[c].race.value.message
              IN  IF \E i \in 1..Len(m) : i + 6 <= Len(m) /\ SubSeq(m, i, i + 6) = "timeout"
                  THEN /\ calls[c].result.success = FALSE
                       /\ Includes(calls[c].result.error, "timed out")
                       /\ calls[c].result.error # m
                  ELSE calls[c].result = [success |-> FALSE, error |-> m]
        /\ TimerWon(c) =>
              \A d \in Started :
                  (SendWon(d) /\ calls[d].race.state = "rejected"
                     /\ calls[d].race.value.isError
                     /\ calls[d].result.error # calls[d].race.value.message) =>
                        calls[d].result = calls[c].result

\* The transport rejected one call with "Invalid recipient" and another with
\* "Connection timeout", each before the timer of the call
C5_Witness ==
    \E c, d \in Started :
        /\ SendWon(c) /\ calls[c].race.state = "rejected"
        /\ calls[c].race.value = [isError |-> TRUE, message |-> "Invalid recipient"]
        /\ SendWon(d) /\ calls[d].race.state = "rejected"
        /\ calls[d].race.value = [isError |-> TRUE, message |-> "Connection timeout"]

\* A structured result: {success, error?}, with an error message when
\* success is false
Structured(r) ==
    /\ DOMAIN r \in {{"success"}, {"success", "error"}}
    /\ r.success \in BOOLEAN
    /\ ~ r.success => ("error" \in DOMAIN r /\ r.error \in STRING)

\* C6: no sendEmail call ends any other way than by returning a structured
\* result: a call is either still waiting for its transport call and its
\* timer, both unsettled, or has returned {success, error?}, where
\* success = false carries an error message.
C6_AlwaysStructuredResult ==
    \A c \in Started :
        /\ calls[c].pc \in {"awaiting", "returned"}
        /\ calls[c].pc = "awaiting" =>
              calls[c].sendPromise.state = "pending" /\ calls[c].timer = "armed"
        /\ calls[c].pc = "returned" => Structured(calls[c].result)

\* One call returned after the transport rejected with a value that is not
\* an Error, another after its timer fired
C6_Witness ==
    \E c, d \in Started :
        /\ calls[c].pc = "returned" /\ SendWon(c)
        /\ calls[c].race.state = "rejected" /\ ~ calls[c].race.value.isError
        /\ calls[d].pc = "returned" /\ TimerWon(d)

\* C7: for every transport send issued by sendEmail, the from-address of the
\* outgoing message equals the auth user the transport client was configured
\* with at construction, whatever the caller passes and whatever happens
\* between construction and the send.
C7_FromIsAuthUser ==
    \A c \in Started :
        calls[c].mailOptions # Null =>
            /\ "from" \in DOMAIN calls[c].mailOptions
            /\ calls[c].mailOptions["from"] = transporter.auth.user

\* C8: the dispatcher is Configured exactly when host, user and secret were
\* all present at construction, and no step (a sendEmail call, a transport
\* outcome, a timer firing, a later change of the configuration) replaces the
\* transport client handle or moves the dispatcher between Configured and
\* Unconfigured.
C8_StateFixedAtConstruction ==
    /\ (transporter # Null) <=> ({"SMTP_HOST", "SMTP_USER", "SMTP_PASS"} \subseteq DOMAIN env)
    /\ [][transporter' = transporter]_vars

\* The credentials are all present now, two calls were made since, and the
\* dispatcher, constructed without them, still refuses
C8_Witness ==
    /\ transporter = Null
    /\ {"SMTP_HOST", "SMTP_USER", "SMTP_PASS"} \subseteq DOMAIN env
    /\ Len(calls) >= 2
    /\ \A c \in Started : calls[c].result.success = FALSE

\* What invariably holds of one invocation on a configured dispatcher: it
\* waits exactly while its own transport call and its own timer are both
\* unsettled, and its result and last log event are those of whichever of
\* the two settled first
C9_OwnOutcome(c) ==
    /\ calls[c].pc = "awaiting" <=>
          (calls[c].sendPromise.state = "pending" /\ calls[c].timer = "armed")
    /\ calls[c].pc = "returned" =>
          LET last == calls[c].events[Len(calls[c].events)]
          IN  \/ /\ TimerWon(c)
                 /\ calls[c].timer = "fired"
                 /\ calls[c].result.success = FALSE
                 /\ Includes(calls[c].result.error, "timed out")
                 /\ last.level = "error"
              \/ /\ SendWon(c)
                 /\ calls[c].sendPromise.state = "fulfilled"
                 /\ calls[c].result = [success |-> TRUE]
                 /\ last.level = "info" /\ last.messageId = calls[c].sendPromise.value.messageId
              \/ /\ SendWon(c)
                 /\ calls[c].sendPromise.state = "rejected"
                 /\ calls[c].result.success = FALSE
                 /\ last.level = "error"
                 /\ last.error = (IF calls[c].sendPromise.value.isError
                                  THEN calls[c].sendPromise.value.message
                                  ELSE "Unknown error")

\* C9: concurrent sendEmail calls on one dispatcher are independent: each
\* call's result and terminal log event are determined by its own transport
\* outcome and its own timer, a step of one call leaves every other call as
\* it was, and no step of a send writes the transport client handle or the
\* configuration.
C9_CallsAreIndependent ==
    /\ [](transporter # Null => \A c \in Started : C9_OwnOutcome(c))
    /\ [][/\ transporter' = transporter
          /\ env' = env
          /\ \A c, d \in Started :
                (c # d /\ calls'[c] # calls[c]) =>
                    (calls'[d] = calls[d] /\ approvals'[d] = approvals[d])]_vars

\* Two calls were in flight together: the first timed out while the second,
\* made before that, succeeded afterwards
C9_Witness ==
    /\ Len(calls) >= 2
    /\ TimerWon(1) /\ calls[1].sendPromise.state = "pending"
    /\ SendWon(2) /\ calls[2].sendPromise.state = "fulfilled" /\ calls[2].timer = "armed"

\* The login link of an HTML body whose base is b
C10_Link(b) == "<a href=\"" \o b \o "/login\""

\* b is the first entry of a comma-separated list
C10_FirstEntry(b, list) ==
    /\ \A i \in 1..Len(b) : SubSeq(b, i, i) # ","
    /\ \/ list = b
       \/ Len(list) > Len(b) /\ SubSeq(list, 1, Len(b) + 1) = b \o ","

\* The base the login link must have: the front-end URL if it is set to a
\* non-empty value, else the first entry of the domain list if there is one,
\* else the literal
C10_HasBase(h) ==
    IF "FRONTEND_URL" \in DOMAIN env /\ env["FRONTEND_URL"] # ""
    THEN Includes(h, C10_Link(env["FRONTEND_URL"]))
    ELSE IF "REPLIT_DOMAINS" \in DOMAIN env
         THEN \E n \in 1..Len(env["REPLIT_DOMAINS"]) :
                 /\ C10_FirstEntry(SubSeq(env["REPLIT_DOMAINS"], 1, n), env["REPLIT_DOMAINS"])
                 /\ Includes(h, C10_Link(SubSeq(env["REPLIT_DOMAINS"], 1, n)))
         ELSE Includes(h, C10_Link("https://www.kosmospace.com"))

\* The body and the recipient an approval call hands to sendEmail
C10_Handed(a, options) ==
    /\ options.to = a.email
    /\ Includes(options.html, a.email)
    /\ Includes(options.html, a.password)
    /\ C10_HasBase(options.html)

\* C10: sendBeauticianApprovalEmail hands sendEmail, its only delivery path,
\* an HTML body that contains the supplied email and password verbatim and a
\* login link whose base is the front-end URL if set, else the first entry of
\* the domain list if set, else https://www.kosmospace.com; that body is what
\* goes to the transport, and the call's result is the result of that
\* sendEmail call.
C10_ApprovalEmail ==
    /\ [][\A c \in DOMAIN calls' :
            /\ (c \notin Started /\ approvals'[c] # Null) =>
                  C10_Handed(approvals'[c].args, calls'[c].options)
            /\ c \in Started =>
                  /\ calls'[c].options = calls[c].options
                  /\ (approvals'[c] # Null) <=> (approvals[c] # Null)]_vars
    /\ [](\A c \in Started :
            approvals[c] # Null =>
                /\ calls[c].mailOptions # Null =>
                      calls[c].mailOptions.html = calls[c].options.html
                /\ approvals[c].result =
                      (IF calls[c].pc = "returned" THEN calls[c].result ELSE NoResult))

\* With the front-end URL set but empty and a domain list to fall back on,
\* one approval email went out and returned success while a second, for
\* another recipient, is still waiting
C10_Witness ==
    /\ "FRONTEND_URL" \in DOMAIN env /\ env["FRONTEND_URL"] = ""
    /\ "REPLIT_DOMAINS" \in DOMAIN env
    /\ \E c, d \in Started :
          /\ approvals[c] # Null /\ calls[c].pc = "returned" /\ calls[c].result.success
          /\ approvals[d] # Null /\ calls[d].pc = "awaiting"
          /\ approvals[c].args # approvals[d].args

====
